---------------------------- MODULE Spec2Model ----------------------------
(***************************************************************************)
(* ripper2csv (src/src/main.py): a batch converter from tagged text dumps  *)
(* (rip_*.txt) to output.csv, with a two-phase config.txt workflow.        *)
(*                                                                         *)
(* A Python str is a sequence of one-character strings; a text file is a   *)
(* str (config.txt) or the sequence of its lines (the rip_*.txt inputs,    *)
(* each line without its terminator).  An Optional value is None == <<>>   *)
(* or Some(x) == <<x>>.  A Python dict is the sequence of its items in     *)
(* insertion order, keys unique.                                           *)
(***************************************************************************)
EXTENDS Integers, Sequences, FiniteSets, TLC

\* ------------------------------------------------------------- bounds
\* lines in all input files of the corpus together
MaxLines == 3
\* rip_*.txt files in the source directory
MaxFiles == 2
\* invocations of the program on the same directory
MaxRuns == 2

\* ------------------------------------------------- Python values
None == <<>>
Some(x) == <<x>>
Value(o) == o[1]

Range(s) == {s[i] : i \in 1..Len(s)}

\* one-character strings
TAB == "\t"
NL == "\n"
SP == " "

\* str.strip() removes these from both ends
Whitespace == {" ", "\t", "\n", "\r"}

\* the first and the last index of s that holds no whitespace (0: none)
RECURSIVE first_black(_, _)
first_black(s, i) ==
    IF i > Len(s) THEN 0
    ELSE IF s[i] \notin Whitespace THEN i ELSE first_black(s, i + 1)

RECURSIVE last_black(_, _)
last_black(s, i) ==
    IF i < 1 THEN 0
    ELSE IF s[i] \notin Whitespace THEN i ELSE last_black(s, i - 1)

\* str.strip()
strip(s) ==
    IF first_black(s, 1) = 0 THEN <<>>
    ELSE SubSeq(s, first_black(s, 1), last_black(s, Len(s)))

\* the first index from i on at which s holds the character c (0: none)
RECURSIVE find(_, _, _)
find(s, c, i) ==
    IF i > Len(s) THEN 0
    ELSE IF s[i] = c THEN i ELSE find(s, c, i + 1)

\* str.split(sep) for a one-character sep: one more piece than occurrences
RECURSIVE split(_, _)
split(s, sep) ==
    LET i == find(s, sep, 1)
    IN  IF i = 0 THEN <<s>>
        ELSE <<SubSeq(s, 1, i - 1)>> \o split(SubSeq(s, i + 1, Len(s)), sep)

\* sep.join(list)
RECURSIVE join(_, _)
join(sep, list) ==
    IF list = <<>> THEN <<>>
    ELSE IF Len(list) = 1 THEN list[1]
    ELSE list[1] \o sep \o join(sep, Tail(list))

\* sub in s
contains(s, sub) ==
    \E i \in 0..(Len(s) - Len(sub)) : SubSeq(s, i + 1, i + Len(sub)) = sub

\* the characters of the model in code-point order (ord compares positions)
CodePointOrder ==
    <<"\t", "\n", "\r", " ", ",", ":",
      "A", "B", "C", "D", "E", "F", "G", "H", "I", "J", "K", "L", "M",
      "N", "O", "P", "Q", "R", "S", "T", "U", "V", "W", "X", "Y", "Z",
      "[", "]", "_",
      "a", "b", "c", "d", "e", "f", "g", "h", "i", "j", "k", "l", "m",
      "n", "o", "p", "q", "r", "s", "t", "u", "v", "w", "x", "y", "z",
      "U+00A6", "U+00E2", "U+2014">>

ord(c) == CHOOSE i \in 1..Len(CodePointOrder) : CodePointOrder[i] = c

UpperCase ==
    <<"A", "B", "C", "D", "E", "F", "G", "H", "I", "J", "K", "L", "M",
      "N", "O", "P", "Q", "R", "S", "T", "U", "V", "W", "X", "Y", "Z">>
LowerCase ==
    <<"a", "b", "c", "d", "e", "f", "g", "h", "i", "j", "k", "l", "m",
      "n", "o", "p", "q", "r", "s", "t", "u", "v", "w", "x", "y", "z">>

\* str.lower()
lower(s) ==
    [i \in 1..Len(s) |->
        IF \E k \in 1..Len(UpperCase) : UpperCase[k] = s[i]
        THEN LowerCase[CHOOSE k \in 1..Len(UpperCase) : UpperCase[k] = s[i]]
        ELSE s[i]]

\* a <= b on str: lexicographic by code point
RECURSIVE StrLE(_, _)
StrLE(a, b) ==
    IF a = <<>> THEN TRUE
    ELSE IF b = <<>> THEN FALSE
    ELSE IF Head(a) = Head(b) THEN StrLE(Tail(a), Tail(b))
    ELSE ord(Head(a)) < ord(Head(b))

\* all orders in which a set can be iterated
RECURSIVE Orders(_)
Orders(S) ==
    IF S = {} THEN {<<>>}
    ELSE UNION {{<<x>> \o rest : rest \in Orders(S \ {x})} : x \in S}

\* sorted(S) without the key: by code point, capitals first
sorted_by_code_point(S) ==
    {L \in Orders(S) :
        \A i \in 1..Len(L), j \in 1..Len(L) : i < j => StrLE(L[i], L[j])}

\* sorted(S, key=lambda x: x.lower()) of a set: the sort is stable, so equal
\* keys stay in the set's iteration order, which Python does not fix
sorted_by_lower(S) ==
    {L \in Orders(S) :
        \A i \in 1..Len(L), j \in 1..Len(L) :
            i < j => StrLE(lower(L[i]), lower(L[j]))}

\* dict: items in insertion order
dict_keys(d) == {d[i].key : i \in 1..Len(d)}
dict_get(d, k) == (CHOOSE i \in 1..Len(d) : d[i].key = k)
dict_value(d, k) == d[dict_get(d, k)].value
\* d[k] = v
dict_set(d, k, v) ==
    IF k \in dict_keys(d)
    THEN [d EXCEPT ![dict_get(d, k)] = [key |-> k, value |-> v]]
    ELSE Append(d, [key |-> k, value |-> v])

\* ------------------------------------------------- module constants
\* skip_chars; the third is the three-character string at line 8
skip_chars == << <<"[">>, <<"]">>, <<"U+00E2", "U+2014", "U+00A6">> >>

DEFAULT_PARTS ==
  <<
    [key |-> <<"v", "e", "r", "s", "e">>,
     value |-> <<
        <<"P", "a", "r", "t", "i", "c", "l", "e">>,
        <<"V", "e", "r", "b">>,
        <<"N", "o", "u", "n">>,
        <<"S", "u", "f", "f", "i", "x">>,
        <<"P", "r", "o", "n", "o", "u", "n">>,
        <<"A", "d", "j", "e", "c", "t", "i", "v", "e">>,
        <<"P", "a", "r", "a", "g", "r", "a", "p", "h">>,
        <<"N", "o", "u", "n">> >>],
    [key |-> <<"p", "o", "s">>,
     value |-> <<
        <<"n", "o", "u", "n">>,
        <<"v", "e", "r", "b">>,
        <<"p", "a", "r", "t", "i", "c", "l", "e">>,
        <<"a", "d", "j", "e", "c", "t", "i", "v", "e">> >>],
    [key |-> <<"n", "u", "m", "b", "e", "r">>,
     value |-> <<
        <<"s", "i", "n", "g", "u", "l", "a", "r">>,
        <<"p", "l", "u", "r", "a", "l">> >>],
    [key |-> <<"g", "e", "n", "d", "e", "r">>,
     value |-> <<
        <<"m", "a", "s", "c", "u", "l", "i", "n", "e">>,
        <<"f", "e", "m", "i", "n", "i", "n", "e">> >>],
    [key |-> <<"t", "e", "n", "s", "e">>,
     value |-> <<
        <<"p", "e", "r", "f", "e", "c", "t">>,
        <<"i", "m", "p", "e", "r", "f", "e", "c", "t">> >>],
    [key |-> <<"p", "e", "r", "s", "o", "n">>,
     value |-> <<
        <<"f", "i", "r", "s", "t">>,
        <<"s", "e", "c", "o", "n", "d">>,
        <<"t", "h", "i", "r", "d">> >>],
    [key |-> <<"b", "i", "n", "y", "a", "n">>,
     value |-> <<
        <<"q", "a", "l">>,
        <<"p", "i", "e", "l">>,
        <<"h", "i", "f", "i", "l">>,
        <<"n", "i", "f", "a", "l">>,
        <<"p", "u", "a", "l">>,
        <<"h", "i", "t", "p", "a", "e", "l">>,
        <<"h", "o", "f", "a", "l">>,
        <<"p", "a", "s", "s", "i", "v", "e", "q", "a", "l">>,
        <<"p", "o", "l", "e", "l">>,
        <<"h", "i", "t", "p", "o", "l", "e", "l">> >>]
  >>

\* ------------------------------------------------------ read_config
\* file.readlines(): every line keeps its "\n"; a last line may lack it
RECURSIVE readlines(_)
readlines(text) ==
    LET i == find(text, NL, 1)
    IN  IF text = <<>> THEN <<>>
        ELSE IF i = 0 THEN <<text>>
        ELSE <<SubSeq(text, 1, i)>> \o readlines(SubSeq(text, i + 1, Len(text)))

\* the terms one config line contributes: parts[1].split(',')
line_terms(parts) == Range(split(parts[2], ","))

\* the loop of lines 41-48 from line k on; a line that does not split into
\* two parts on ':' raises ValueError, which line 50 turns into None
RECURSIVE read_config_lines(_, _, _)
read_config_lines(lines, k, ret) ==
    IF k > Len(lines) THEN Some(ret)
    ELSE LET parts == split(lines[k], ":")
         IN  IF Len(parts) = 2
             THEN read_config_lines(lines, k + 1,
                      dict_set(ret, strip(parts[1]), line_terms(parts)))
             ELSE None

\* read_config: None when config.txt is missing or a line is malformed
read_config(configfile) ==
    IF configfile = None THEN None
    ELSE read_config_lines(readlines(Value(configfile)), 1, <<>>)

\* ----------------------------------------------------- write_config
\* lines 58-60: the union of the fts of every word that has some
met_tags(wordlist) ==
    UNION {Range(Value(wordlist[i].fts)) :
              i \in {k \in 1..Len(wordlist) :
                        wordlist[k].fts # None /\ Value(wordlist[k].fts) # <<>>}}

\* lines 66-68 over every category: what is left of met_parts
remove_features(met_parts) ==
    LET builtin == UNION {Range(DEFAULT_PARTS[c].value) :
                             c \in 1..Len(DEFAULT_PARTS)}
    IN  SelectSeq(met_parts, LAMBDA t : t \notin builtin)

\* line 65 for every category, in the order of DEFAULT_PARTS
RECURSIVE default_lines(_)
default_lines(c) ==
    IF c > Len(DEFAULT_PARTS) THEN <<>>
    ELSE DEFAULT_PARTS[c].key \o <<":", " ">>
             \o join(<<",", " ">>, DEFAULT_PARTS[c].value) \o <<NL>>
             \o default_lines(c + 1)

\* line 71: the last line, without a terminator, when something is left
other_line(left) ==
    IF left # <<>>
    THEN <<"o", "t", "h", "e", "r", ":", " ">> \o join(<<",", " ">>, left)
    ELSE <<>>

\* the text write_config puts in config.txt, met_parts being the sorted tags
write_config(met_parts) ==
    default_lines(1) \o other_line(remove_features(met_parts))

\* ------------------------------------------------------- parse_verse
\* handle_parts: None without a config, else tag -> config.get(tag, tag)
handle_parts(parts, config) ==
    IF config = None THEN None
    ELSE LET d == Value(config)
         IN  Some([p \in Range(split(parts, SP)) |->
                      IF p \in dict_keys(d) THEN dict_value(d, p) ELSE p])

\* word.fts of a word line: present only with six parts
word_fts(parts) ==
    IF Len(parts) = 6 THEN Some(split(parts[5], SP)) ELSE None

parse_word(verse, parts, config) ==
    [verse_id |-> verse,
     form |-> parts[1],
     transliterated_form |-> parts[2],
     lemma |-> Some(parts[3]),
     transliterated_lemma |-> Some(parts[4]),
     fts |-> word_fts(parts),
     parts |-> IF Len(parts) = 6 THEN handle_parts(parts[5], config) ELSE None,
     translation |-> Some(parts[Len(parts)])]

parse_suffix(verse, parts, config) ==
    [verse_id |-> verse,
     form |-> parts[1],
     transliterated_form |-> parts[2],
     lemma |-> None,
     transliterated_lemma |-> None,
     fts |-> Some(split(parts[3], SP)),
     parts |-> handle_parts(parts[3], config),
     translation |-> None]

\* file.readline() at position p (lines already read): the line with its
\* terminator, or the empty str at end of file
readline(f, p) == IF p < Len(f) THEN f[p + 1] \o <<NL>> ELSE <<>>
\* file.tell() after that readline
tell_after(f, p) == IF p < Len(f) THEN p + 1 ELSE p

\* line 93: the verse identifier
verse_of(raw) == strip(raw)

\* line 98
is_skipped(line) ==
    \E k \in 1..Len(skip_chars) : contains(line, skip_chars[k])

\* lines 97-108 for one line read: what the loop body does with it
body_step(raw, verse, config) ==
    LET line == strip(raw)
        parts == split(line, TAB)
    IN  IF is_skipped(line) THEN [kind |-> "continue", word |-> None]
        ELSE IF line = <<>> THEN [kind |-> "break", word |-> None]
        ELSE IF Len(parts) = 3
        THEN [kind |-> "append", word |-> Some(parse_suffix(verse, parts, config))]
        ELSE IF Len(parts) \in {5, 6}
        THEN [kind |-> "append", word |-> Some(parse_word(verse, parts, config))]
        ELSE [kind |-> "print", word |-> None]

\* has_another_line without line 79: the position stays after the line
has_another_line_no_seek(f, p) ==
    [does_it |-> readline(f, p) # <<>>, pos |-> tell_after(f, p)]

\* has_another_line: tell, readline, seek back
has_another_line(f, p) ==
    LET cur_pos == p
        does_it == readline(f, p) # <<>>
    IN  [does_it |-> does_it, pos |-> cur_pos]

\* --------------------------------------------------------- write_csv
FixedColumns ==
    <<<<"v", "e", "r", "s", "e", "_", "i", "d">>,
      <<"f", "o", "r", "m">>,
      <<"t", "r", "a", "n", "s", "l", "i", "t", "e", "r", "a", "t", "e", "d",
        "_", "f", "o", "r", "m">>,
      <<"l", "e", "m", "m", "a">>,
      <<"t", "r", "a", "n", "s", "l", "i", "t", "e", "r", "a", "t", "e", "d",
        "_", "l", "e", "m", "m", "a">>,
      <<"f", "t", "s">>,
      <<"t", "r", "a", "n", "s", "l", "a", "t", "i", "o", "n">> >>

\* lines 142-148: the seven fixed items of w
fixed_items(word) ==
    <<[key |-> FixedColumns[1], value |-> Some(word.verse_id)],
      [key |-> FixedColumns[2], value |-> Some(word.form)],
      [key |-> FixedColumns[3], value |-> Some(word.transliterated_form)],
      [key |-> FixedColumns[4], value |-> word.lemma],
      [key |-> FixedColumns[5], value |-> word.transliterated_lemma],
      [key |-> FixedColumns[6],
       value |-> IF word.fts # None /\ Value(word.fts) # <<>>
                 THEN Some(<<"[">> \o join(<<",", " ">>, Value(word.fts)) \o <<"]">>)
                 ELSE None],
      [key |-> FixedColumns[7], value |-> word.translation]>>

\* line 151: None for a word without parts
met_terms(terms, word) ==
    IF word.parts # None /\ DOMAIN Value(word.parts) # {}
    THEN Some(terms \cap DOMAIN Value(word.parts))
    ELSE None

\* line 152 joining the word's tags, line 151 forgotten
category_value_of_tags(terms, word, iter) ==
    IF word.fts # None THEN join(<<",">>, Value(word.fts)) ELSE <<>>

\* line 152; iter is the order in which this process iterates its sets
category_value(terms, word, iter) ==
    LET met == met_terms(terms, word)
    IN  IF met # None /\ Value(met) # {}
        THEN join(<<",">>, SelectSeq(iter, LAMBDA t : t \in Value(met)))
        ELSE <<>>

\* lines 150-152 from category c on
RECURSIVE category_items(_, _, _, _, _)
category_items(w, config, c, word, iter) ==
    IF c > Len(config) THEN w
    ELSE category_items(
             dict_set(w, config[c].key,
                      Some(category_value(config[c].value, word, iter))),
             config, c + 1, word, iter)

\* the dict w of one word
row_of(word, config, iter) ==
    category_items(fixed_items(word), config, 1, word, iter)

\* every term some row joins: the strings whose iteration order shows
joined_terms(wordlist, config) ==
    UNION {config[c].value \cap
              (IF wordlist[i].parts = None THEN {}
               ELSE DOMAIN Value(wordlist[i].parts)) :
              c \in 1..Len(config), i \in 1..Len(wordlist)}

\* write_csv: the file is opened (and so emptied) before w.keys() is
\* evaluated; with no word w was never bound and line 157 raises
write_csv(wordlist, config, iter) ==
    IF wordlist = <<>>
    THEN [file |-> <<>>, raised |-> "UnboundLocalError"]
    ELSE LET out == [i \in 1..Len(wordlist) |-> row_of(wordlist[i], config, iter)]
             header == [k \in 1..Len(out[Len(out)]) |-> out[Len(out)][k].key]
         IN  [file |-> <<header>> \o out, raised |-> "no"]

\* lines 171-174 without the else branch
mode_without_else(config) == "write_config"

\* lines 171-174
mode(config) == IF config = None THEN "write_config" ELSE "write_csv"

\* ------------------------------------------------------------ inputs
\* lines of a rip_*.txt file, without their terminator
LineBlank == <<>>
\* "v": a verse identifier; in a body, a line of one field
LineVerse == <<"v">>
\* "f\tt\tB verb a": a suffix line
LineSuffix == <<"f", TAB, "t", TAB, "B", SP, "v", "e", "r", "b", SP, "a">>
\* "f\tt\tl\tm\ta  B\tg": a word line of six fields, two spaces in the tags
LineWord6 == <<"f", TAB, "t", TAB, "l", TAB, "m", TAB, "a", SP, SP, "B", TAB, "g">>
\* "f\tt\tl\tm\tg": a word line of five fields
LineWord5 == <<"f", TAB, "t", TAB, "l", TAB, "m", TAB, "g">>
\* "[\tt\ta": an annotation line of three fields
LineSkip == <<"[", TAB, "t", TAB, "a">>
\* "\tv": a line that starts with a tab
LineTabFirst == <<TAB, "v">>
\* "f\tt\tl\tm\ta\t": six fields, the last (the translation) empty
LineWord6NoGloss == <<"f", TAB, "t", TAB, "l", TAB, "m", TAB, "a", TAB>>
\* "f\tt\ta\t": four fields, the last empty
LineFour == <<"f", TAB, "t", TAB, "a", TAB>>

\* "[n": an annotation line without a tab
LineNote == <<"[", "n">>

\* the lines of a well-formed dump, and an annotation line
CoreLines == {LineBlank, LineVerse, LineSuffix, LineWord6, LineWord5, LineSkip}
\* lines with an empty first or last field, and an annotation without a tab
EdgeLines == {LineTabFirst, LineWord6NoGloss, LineFour, LineNote}

\* the sorted rip_*.txt files: at most f files holding at most n lines in all
RECURSIVE CorporaOf(_, _, _)
CorporaOf(f, n, lines) ==
    IF f = 0 THEN {<<>>}
    ELSE {<<>>} \cup
         UNION {{<<first>> \o rest :
                    first \in [1..k -> lines],
                    rest \in CorporaOf(f - 1, n - k, lines)} : k \in 0..n}

\* config.txt as the run finds it: missing, hand-written, or malformed
\* "x:a,B,verb\npos: noun,verb, particle"
ConfigExample ==
    <<"x", ":", "a", ",", "B", ",", "v", "e", "r", "b", NL,
      "p", "o", "s", ":", " ", "n", "o", "u", "n", ",", "v", "e", "r", "b",
      ",", " ", "p", "a", "r", "t", "i", "c", "l", "e">>
\* "pos\n": a line without a colon
ConfigMalformed == <<"p", "o", "s", NL>>
ConfigChoices == {None, Some(ConfigExample), Some(ConfigMalformed)}

\* ------------------------------------------------------------- state
VARIABLES
    corpus,        \* the rip_*.txt files, sorted, each the sequence of its lines
    config_txt,    \* config.txt: None or Some(text)
    output_csv,    \* output.csv: None or Some(header and rows)
    run,           \* which invocation of the program this is
    pc,            \* where the run is
    config,        \* main's config
    words,         \* main's words
    fidx,          \* the file parse_file has open (index in corpus)
    pos,           \* its read position: lines read so far
    ret,           \* parse_file's ret
    verse,         \* parse_verse's verse
    vret,          \* parse_verse's ret
    consumed,      \* history: every line read by parse_verse, and as what
    config_before, \* history: config.txt as this run found it
    written,       \* history: the files this run opened for writing
    runs_log       \* history: how the earlier runs went

vars == <<corpus, config_txt, output_csv, run, pc, config, words, fidx, pos,
          ret, verse, vret, consumed, config_before, written, runs_log>>

file == corpus[fidx]

Terminal == {"exit", "AssertionError", "UnboundLocalError"}

InitOver(lines, configs) ==
    /\ corpus \in CorporaOf(MaxFiles, MaxLines, lines)
    /\ config_txt \in configs
    /\ output_csv = None
    /\ run = 1
    /\ pc = "read_config"
    /\ config = None
    /\ words = <<>>
    /\ fidx = 0
    /\ pos = 0
    /\ ret = <<>>
    /\ verse = <<>>
    /\ vret = <<>>
    /\ consumed = <<>>
    /\ config_before = config_txt
    /\ written = {}
    /\ runs_log = <<>>

\* a well-formed corpus, any config.txt
Init == InitOver(CoreLines, ConfigChoices)

\* a corpus that may hold the edge lines too
InitEdge == InitOver(CoreLines \cup EdgeLines, {None, Some(ConfigExample)})

\* line 167
ReadConfig ==
    /\ pc = "read_config"
    /\ config' = read_config(config_txt)
    /\ pc' = "get_files"
    /\ UNCHANGED <<corpus, config_txt, output_csv, run, words, fidx, pos, ret,
                   verse, vret, consumed, config_before, written, runs_log>>

\* lines 169-170, 83-85: the next file is opened
ParseFile ==
    /\ pc = "get_files"
    /\ fidx < Len(corpus)
    /\ fidx' = fidx + 1
    /\ pos' = 0
    /\ ret' = <<>>
    /\ pc' = "parse_verse"
    /\ UNCHANGED <<corpus, config_txt, output_csv, run, config, words, verse,
                   vret, consumed, config_before, written, runs_log>>

Consumed(as, kind, word) ==
    IF pos < Len(file)
    THEN Append(consumed, [file |-> fidx, line |-> pos + 1, as |-> as,
                           kind |-> kind, word |-> word])
    ELSE consumed

\* lines 93-95: the identifier line passes the assertion
ParseVerse ==
    /\ pc = "parse_verse"
    /\ ~contains(verse_of(readline(file, pos)), <<TAB>>)
    /\ verse' = verse_of(readline(file, pos))
    /\ vret' = <<>>
    /\ pos' = tell_after(file, pos)
    /\ consumed' = Consumed("verse", "id", None)
    /\ pc' = "parse_verse_loop"
    /\ UNCHANGED <<corpus, config_txt, output_csv, run, config, words, fidx,
                   ret, config_before, written, runs_log>>

\* line 94 fails: nothing catches the AssertionError, the run ends
ParseVerseAssert ==
    /\ pc = "parse_verse"
    /\ contains(verse_of(readline(file, pos)), <<TAB>>)
    /\ pos' = tell_after(file, pos)
    /\ consumed' = Consumed("verse", "assert", None)
    /\ pc' = "AssertionError"
    /\ UNCHANGED <<corpus, config_txt, output_csv, run, config, words, fidx,
                   ret, verse, vret, config_before, written, runs_log>>

\* lines 97-108: one line of the verse body that does not end the block
ParseVerseLine ==
    /\ pc = "parse_verse_loop"
    /\ LET step == body_step(readline(file, pos), verse, config)
       IN  /\ step.kind # "break"
           /\ vret' = IF step.kind = "append"
                      THEN Append(vret, Value(step.word))
                      ELSE vret
           /\ consumed' = Consumed("body", step.kind, step.word)
    /\ pos' = tell_after(file, pos)
    /\ UNCHANGED <<corpus, config_txt, output_csv, run, pc, config, words,
                   fidx, ret, verse, config_before, written, runs_log>>

\* lines 100-101, 109, 87: a blank line or the end of the file ends the block
ParseVerseReturn ==
    /\ pc = "parse_verse_loop"
    /\ body_step(readline(file, pos), verse, config).kind = "break"
    /\ consumed' = Consumed("body", "break", None)
    /\ pos' = tell_after(file, pos)
    /\ ret' = ret \o vret
    /\ pc' = "has_another_line"
    /\ UNCHANGED <<corpus, config_txt, output_csv, run, config, words, fidx,
                   verse, vret, config_before, written, runs_log>>

\* line 88, another line: the loop of parse_file goes on
ParseFileLoop ==
    /\ pc = "has_another_line"
    /\ has_another_line(file, pos).does_it
    /\ pos' = has_another_line(file, pos).pos
    /\ pc' = "parse_verse"
    /\ UNCHANGED <<corpus, config_txt, output_csv, run, config, words, fidx,
                   ret, verse, vret, consumed, config_before, written, runs_log>>

\* lines 88-90, 170: no other line, parse_file returns
ParseFileReturn ==
    /\ pc = "has_another_line"
    /\ ~has_another_line(file, pos).does_it
    /\ pos' = has_another_line(file, pos).pos
    /\ words' = words \o ret
    /\ pc' = "get_files"
    /\ UNCHANGED <<corpus, config_txt, output_csv, run, config, fidx, ret,
                   verse, vret, consumed, config_before, written, runs_log>>

\* lines 171-172
WriteConfig ==
    /\ pc = "get_files"
    /\ fidx = Len(corpus)
    /\ mode(config) = "write_config"
    /\ \E met_parts \in sorted_by_lower(met_tags(words)) :
           config_txt' = Some(write_config(met_parts))
    /\ pc' = "exit"
    /\ written' = written \cup {"config.txt"}
    /\ UNCHANGED <<corpus, output_csv, run, config, words, fidx, pos, ret,
                   verse, vret, consumed, config_before, runs_log>>

\* lines 173-174
WriteCsv ==
    /\ pc = "get_files"
    /\ fidx = Len(corpus)
    /\ mode(config) = "write_csv"
    /\ \E iter \in Orders(joined_terms(words, Value(config))) :
           LET done == write_csv(words, Value(config), iter)
           IN  /\ output_csv' = Some(done.file)
               /\ pc' = IF done.raised = "no" THEN "exit" ELSE done.raised
    /\ written' = written \cup {"output.csv"}
    /\ UNCHANGED <<corpus, config_txt, run, config, words, fidx, pos, ret,
                   verse, vret, consumed, config_before, runs_log>>

\* the program is invoked again on the same directory
NextRun ==
    /\ pc \in Terminal
    /\ run < MaxRuns
    /\ run' = run + 1
    /\ pc' = "read_config"
    /\ config' = None
    /\ words' = <<>>
    /\ fidx' = 0
    /\ pos' = 0
    /\ ret' = <<>>
    /\ verse' = <<>>
    /\ vret' = <<>>
    /\ consumed' = <<>>
    /\ config_before' = config_txt
    /\ written' = {}
    /\ runs_log' = Append(runs_log, [found |-> config_before, ended |-> pc,
                                     written |-> written,
                                     records |-> Len(words)])
    /\ UNCHANGED <<corpus, config_txt, output_csv>>

Next ==
    \/ ReadConfig
    \/ ParseFile
    \/ ParseVerse
    \/ ParseVerseAssert
    \/ ParseVerseLine
    \/ ParseVerseReturn
    \/ ParseFileLoop
    \/ ParseFileReturn
    \/ WriteConfig
    \/ WriteCsv
    \/ NextRun

Spec == Init /\ [][Next]_vars

EdgeSpec == InitEdge /\ [][Next]_vars

\* ------------------------------------------- parse_file as a function
\* parse_file from position p on, about to read an identifier line
\* (at = "verse") or a body line (at = "body"): its words, or raised
RECURSIVE parse_from(_, _, _, _, _)
parse_from(f, p, at, v, cfg) ==
    IF at = "verse"
    THEN IF contains(verse_of(readline(f, p)), <<TAB>>)
         THEN [raised |-> TRUE, words |-> <<>>]
         ELSE parse_from(f, tell_after(f, p), "body", verse_of(readline(f, p)), cfg)
    ELSE LET step == body_step(readline(f, p), v, cfg)
             q == tell_after(f, p)
         IN  IF step.kind = "break"
             THEN IF has_another_line(f, q).does_it
                  THEN parse_from(f, q, "verse", v, cfg)
                  ELSE [raised |-> FALSE, words |-> <<>>]
             ELSE LET rest == parse_from(f, q, "body", v, cfg)
                  IN  [raised |-> rest.raised,
                       words |-> (IF step.kind = "append"
                                  THEN <<Value(step.word)>>
                                  ELSE <<>>) \o rest.words]

\* ------------------------------------------------------------ claims
\* the line of the corpus behind an entry of consumed
RawLine(e) == corpus[e.file][e.line]
\* the tab-delimited fields of a line as the file holds it
Fields(raw) == split(raw, TAB)
\* the raw tags of a word
RawTags(w) == IF w.fts = None THEN {} ELSE Range(Value(w.fts))
\* every word parsed so far in this run
ParsedWords == Range(words) \cup Range(ret) \cup Range(vret)
\* a column value read as a set of tokens
Tokens(v) == IF v = <<>> THEN {} ELSE Range(split(v, ","))
\* the data rows of output.csv (after the header)
DataRows == IF output_csv = None \/ Value(output_csv) = <<>>
            THEN <<>>
            ELSE Tail(Value(output_csv))

\* C1, as claimed: a run that finds no config.txt followed by a second run
\* on the same corpus never crashes, the second run is in table mode, and
\* output.csv holds one data row per parsed record.  (Runs ended by the
\* assertion of parse_verse are left aside: they are no round trip.)
C1_RoundTrip ==
    (/\ run = 2
     /\ pc \in Terminal
     /\ runs_log[1].found = None
     /\ runs_log[1].ended # "AssertionError"
     /\ pc # "AssertionError")
    => /\ runs_log[1].ended = "exit"
       /\ pc = "exit"
       /\ mode(config) = "write_csv"
       /\ Len(DataRows) = Len(words)

\* C2, as claimed: every ended run wrote config.txt and not output.csv when
\* read_config gave None, output.csv and not config.txt when it gave a
\* mapping; never both; the mapping is what read_config returned
C2_EveryRun ==
    /\ Cardinality(written) <= 1
    /\ pc # "read_config" => config = read_config(config_before)
    /\ pc \in Terminal =>
          IF config = None
          THEN written = {"config.txt"} /\ config_txt # config_before
          ELSE written = {"output.csv"} /\ config_txt = config_before

\* C2, amended: the same for every ended run that the assertion of
\* parse_verse did not abort; before the end, and in an aborted run, no
\* file is written at all
C2_ModeSelection ==
    /\ Cardinality(written) <= 1
    /\ pc # "read_config" => config = read_config(config_before)
    /\ pc \notin {"exit", "UnboundLocalError"} =>
          written = {} /\ config_txt = config_before
    /\ pc \in {"exit", "UnboundLocalError"} =>
          IF config = None
          THEN written = {"config.txt"} /\ config_txt # config_before
          ELSE written = {"output.csv"} /\ config_txt = config_before

\* C2 happens: a first run in config-generation mode, a second in table mode
C2_Witness ==
    /\ run = 2
    /\ runs_log[1].written = {"config.txt"}
    /\ pc = "exit"
    /\ written = {"output.csv"}

\* C3: in output.csv every category column of every row, read as a set of
\* tokens, is a subset of the word's raw tags and of the category's value
\* set, and is the empty string when the word has no tags or shares none
C3_CategoryColumns ==
    (pc = "exit" /\ written = {"output.csv"}) =>
        /\ Len(DataRows) = Len(words)
        /\ \A i \in 1..Len(DataRows), c \in 1..Len(Value(config)) :
              LET cat == Value(config)[c]
                  v == Value(dict_value(DataRows[i], cat.key))
              IN  /\ Tokens(v) \subseteq RawTags(words[i])
                  /\ Tokens(v) \subseteq cat.value
                  /\ RawTags(words[i]) \cap cat.value = {} => v = <<>>

\* C3 happens: a row whose column of category "x" holds two tags, and a
\* row of a word without tags
C3_Witness ==
    /\ pc = "exit"
    /\ written = {"output.csv"}
    /\ <<"x">> \in dict_keys(Value(config))
    /\ \E i \in 1..Len(DataRows) :
          Cardinality(Tokens(Value(dict_value(DataRows[i], <<"x">>)))) = 2
    /\ \E i \in 1..Len(DataRows) : RawTags(words[i]) = {}
BuiltinLines ==
    <<
      "v", "e", "r", "s", "e", ":", " ", "P", "a", "r", "t", "i", "c", "l",
      "e", ",", " ", "V", "e", "r", "b", ",", " ", "N", "o", "u", "n", ",",
      " ", "S", "u", "f", "f", "i", "x", ",", " ", "P", "r", "o", "n", "o",
      "u", "n", ",", " ", "A", "d", "j", "e", "c", "t", "i", "v", "e", ",",
      " ", "P", "a", "r", "a", "g", "r", "a", "p", "h", ",", " ", "N", "o",
      "u", "n", "\n",
      "p", "o", "s", ":", " ", "n", "o", "u", "n", ",", " ", "v", "e", "r",
      "b", ",", " ", "p", "a", "r", "t", "i", "c", "l", "e", ",", " ", "a",
      "d", "j", "e", "c", "t", "i", "v", "e", "\n",
      "n", "u", "m", "b", "e", "r", ":", " ", "s", "i", "n", "g", "u", "l",
      "a", "r", ",", " ", "p", "l", "u", "r", "a", "l", "\n",
      "g", "e", "n", "d", "e", "r", ":", " ", "m", "a", "s", "c", "u", "l",
      "i", "n", "e", ",", " ", "f", "e", "m", "i", "n", "i", "n", "e", "\n",
      "t", "e", "n", "s", "e", ":", " ", "p", "e", "r", "f", "e", "c", "t",
      ",", " ", "i", "m", "p", "e", "r", "f", "e", "c", "t", "\n",
      "p", "e", "r", "s", "o", "n", ":", " ", "f", "i", "r", "s", "t", ",",
      " ", "s", "e", "c", "o", "n", "d", ",", " ", "t", "h", "i", "r", "d",
      "\n",
      "b", "i", "n", "y", "a", "n", ":", " ", "q", "a", "l", ",", " ", "p",
      "i", "e", "l", ",", " ", "h", "i", "f", "i", "l", ",", " ", "n", "i",
      "f", "a", "l", ",", " ", "p", "u", "a", "l", ",", " ", "h", "i", "t",
      "p", "a", "e", "l", ",", " ", "h", "o", "f", "a", "l", ",", " ", "p",
      "a", "s", "s", "i", "v", "e", "q", "a", "l", ",", " ", "p", "o", "l",
      "e", "l", ",", " ", "h", "i", "t", "p", "o", "l", "e", "l", "\n"
    >>

\* every value of a built-in vocabulary
BuiltinVocabulary ==
    UNION {Range(DEFAULT_PARTS[c].value) : c \in 1..Len(DEFAULT_PARTS)}

\* the tag values observed in the corpus and in no built-in vocabulary
UnclaimedTags ==
    UNION {RawTags(words[i]) : i \in 1..Len(words)} \ BuiltinVocabulary

\* C8: the generated config.txt is the built-in lines, in the built-in
\* order, followed, exactly when some observed tag is in no built-in
\* vocabulary, by a last line "other: " listing those tags, each once,
\* sorted without regard to case and joined by ", "
C8_OtherLine ==
    (pc = "exit" /\ written = {"config.txt"}) =>
        \E L \in Orders(UnclaimedTags) :
            /\ \A i \in 1..Len(L), j \in 1..Len(L) :
                  i < j => StrLE(lower(L[i]), lower(L[j]))
            /\ config_txt =
                  Some(BuiltinLines \o
                       (IF L = <<>> THEN <<>>
                        ELSE <<"o", "t", "h", "e", "r", ":", " ">>
                                 \o join(<<",", " ">>, L)))

\* C8 happens: the corpus holds the built-in tag "verb" and the unclaimed
\* tags "B" and "a", which only a case-insensitive sort puts as a, B
C8_Witness ==
    /\ pc = "exit"
    /\ written = {"config.txt"}
    /\ UnclaimedTags = {<<"a">>, <<"B">>}
    /\ \E i \in 1..Len(words) : <<"v", "e", "r", "b">> \in RawTags(words[i])

\* C9, as claimed: the line "pos: noun,verb, particle" of config.txt gives
\* pos -> {"noun", "verb", " particle"}: no space before the first value
C9_ExampleLine ==
    (pc # "read_config" /\ config_before = Some(ConfigExample)) =>
        /\ config # None
        /\ <<"p", "o", "s">> \in dict_keys(Value(config))
        /\ dict_value(Value(config), <<"p", "o", "s">>) =
               {<<"n", "o", "u", "n">>,
                <<"v", "e", "r", "b">>,
                <<" ", "p", "a", "r", "t", "i", "c", "l", "e">>}

\* how often parse_verse read line i of file f in this run
TimesRead(f, i) ==
    Cardinality({k \in 1..Len(consumed) :
                    consumed[k].file = f /\ consumed[k].line = i})

\* parse_file has ended on the file it had open, by return or by raising
ParseFileEnded == (pc = "get_files" /\ fidx >= 1) \/ pc = "AssertionError"

\* C10, as claimed: whenever parse_file has ended, every line of its file
\* was read exactly once, as an identifier or as a body line
C10_EveryLineOnce ==
    ParseFileEnded => \A i \in 1..Len(file) : TimesRead(fidx, i) = 1

\* what is left of parse_file's work: lines not yet read, and the place in
\* the loops of parse_file and parse_verse
Rank ==
    IF pc = "parse_verse" THEN 4 * (Len(file) - pos) + 3
    ELSE IF pc = "parse_verse_loop" THEN 4 * (Len(file) - pos) + 2
    ELSE IF pc = "has_another_line"
    THEN (IF pos < Len(file) THEN 4 * (Len(file) - pos) + 4 ELSE 1)
    ELSE 0

\* parse_file is running
InParseFile == pc \in {"parse_verse", "parse_verse_loop", "has_another_line"}

\* C10, amended: parse_file ends on every finite file, since each of its
\* steps lowers Rank, which is never negative; no line is ever read twice;
\* a parse_verse call that returns does so at a blank line or at the end of
\* the file; a further block starts only when has_another_line found a
\* line; has_another_line leaves the position where it was; and when
\* parse_file returns (the assertion of parse_verse did not fire) every line
\* was read exactly once
C10_Termination ==
    /\ [](\A f \in 1..Len(corpus) : \A i \in 1..Len(corpus[f]) :
              TimesRead(f, i) <= 1)
    /\ []((pc = "get_files" /\ fidx >= 1) =>
              \A i \in 1..Len(file) : TimesRead(fidx, i) = 1)
    /\ [][InParseFile => (Rank' < Rank /\ Rank' >= 0)]_vars
    /\ [][(pc = "parse_verse_loop" /\ pc' = "has_another_line") =>
              (pos = Len(file) \/ strip(file[pos + 1]) = <<>>)]_vars
    /\ [][(pc = "has_another_line" /\ pc' = "parse_verse") =>
              pos < Len(file)]_vars
    /\ [][pc = "has_another_line" => pos' = pos]_vars

\* C10 happens: parse_file has returned from a file of two verse blocks
\* that ends without a blank line, and from an empty file
C10_Witness ==
    /\ pc = "get_files"
    /\ Len(corpus) = 2
    /\ fidx = 2
    /\ corpus[1] = <<>>
    /\ Len(corpus[2]) = 3
    /\ strip(corpus[2][3]) # <<>>
    /\ \E k \in 1..Len(consumed) :
          consumed[k].file = 2 /\ consumed[k].line = 3 /\ consumed[k].as = "verse"

\* C4, as claimed: a body line of six tab-delimited fields yields a word
\* whose tags are field 5 split at the spaces and whose translation is
\* field 6; one of five fields yields a word without tags whose translation
\* is the last field.  (Annotation lines, which are skipped, are left aside.)
C4_WordShape ==
    \A k \in 1..Len(consumed) :
        LET e == consumed[k]
            fields == Fields(RawLine(e))
        IN  (e.as = "body" /\ ~is_skipped(RawLine(e))) =>
              /\ Len(fields) = 6 =>
                    /\ e.word # None
                    /\ Value(e.word).fts = Some(split(fields[5], SP))
                    /\ Value(e.word).translation = Some(strip(fields[6]))
              /\ Len(fields) = 5 =>
                    /\ e.word # None
                    /\ Value(e.word).fts = None
                    /\ Value(e.word).translation = Some(strip(fields[5]))

\* every string a word carries
WordStrings(w) ==
    {w.verse_id, w.form, w.transliterated_form}
        \cup Range(w.lemma) \cup Range(w.transliterated_lemma)
        \cup Range(w.translation) \cup RawTags(w)

\* C5, as claimed: nothing of a line that holds '[', ']' or the glyph is in
\* a parsed record, the line read as the verse identifier included
C5_NoAnnotation ==
    \A w \in ParsedWords : \A s \in WordStrings(w) : ~is_skipped(s)

\* C6, as claimed: once a line with a tab in it, anywhere, was read as a
\* verse identifier the run has ended on the assertion with no file written
C6_TabAborts ==
    \A k \in 1..Len(consumed) :
        (consumed[k].as = "verse" /\ TAB \in Range(RawLine(consumed[k]))) =>
            pc = "AssertionError" /\ written = {}

\* a body line that is neither blank nor an annotation and whose number of
\* tab-delimited fields is not 3, 5 or 6
Malformed(raw) ==
    /\ strip(raw) # <<>>
    /\ ~is_skipped(raw)
    /\ Len(Fields(raw)) \notin {3, 5, 6}

\* the lines of file f that parse_verse read as malformed body lines
MalformedRead(f) ==
    {consumed[k].line : k \in {j \in 1..Len(consumed) :
        /\ consumed[j].file = f
        /\ consumed[j].as = "body"
        /\ Malformed(RawLine(consumed[j]))}}

\* f without its lines numbered in S
Without(f, S) ==
    LET kept == {i \in 1..Len(f) : i \notin S}
        nth(n) == CHOOSE i \in kept : Cardinality({j \in kept : j < i}) = n - 1
    IN  [n \in 1..Cardinality(kept) |-> f[nth(n)]]

\* C7, as claimed: a malformed body line yields no record, and the records
\* of the file are those of the file without its malformed lines, in the
\* same order and with the same verse_id
C7_SoftError ==
    /\ \A k \in 1..Len(consumed) :
          (consumed[k].as = "body" /\ Malformed(RawLine(consumed[k]))) =>
              consumed[k].word = None
    /\ (pc = "get_files" /\ fidx >= 1) =>
          LET rest == parse_from(Without(file, MalformedRead(fidx)), 0,
                                 "verse", <<>>, config)
          IN  ~rest.raised /\ ret = rest.words

\* the step machine and parse_file as a function agree
ParseAgrees ==
    (pc = "get_files" /\ fidx >= 1) =>
        ret = parse_from(file, 0, "verse", <<>>, config).words
=============================================================================
